---- MODULE Spec2Model ----
(***************************************************************************)
(* Model of dwarf-to-struct (src/src/main.rs): the DIE tree of each        *)
(* compilation unit in its depth-first serialised form, the cursor walks   *)
(* EntryChildrenIterator performs on it, the ContextEntry queries, and the *)
(* filter / unique_by / print pipeline of dump_file.                       *)
(*                                                                         *)
(* Optional values (Rust Option<T>) are sequences of length at most one:   *)
(* None is << >> and Some(x) is << x >>.  A name is a sequence of tokens,  *)
(* so that format!("{pointee_name}*") is Append(name, "*").                *)
(***************************************************************************)
EXTENDS Integers, Sequences, FiniteSets, TLC

VARIABLES units, filter, debug, pc, top, seen, cls, kids, out, yielded, violated, panic

vars == <<units, filter, debug, pc, top, seen, cls, kids, out, yielded, violated, panic>>

(***************************************************************************)
(* Bounds of the model.                                                    *)
(***************************************************************************)
\* longest serialised DIE tree the iterator is exercised on
MaxTreeLen == 9
\* number of typedef DIEs chained in the type zoo
MaxTypedefs == 2
\* number of pointer_type DIEs chained in the type zoo
MaxPointers == 2

\* std::mem::size_of::<usize>() on the 64-bit targets the tool is built for
PointerWidth == 8

None == << >>
Some(x) == << x >>
IsSome(o) == Len(o) = 1
Unwrap(o) == o[1]

(***************************************************************************)
(* DIEs.  A unit is the sequence of its entries in .debug_info order: an   *)
(* entry with has_children is followed by its children and a null entry.   *)
(***************************************************************************)
NullEntry ==
    [tag |-> "null", has_children |-> FALSE, name |-> None, byte_size |-> None,
     loc |-> None, type |-> None]

Die(tag, hc, name, size, loc, type) ==
    [tag |-> tag, has_children |-> hc, name |-> name, byte_size |-> size,
     loc |-> loc, type |-> type]

IsNull(d) == d.tag = "null"

\* A ContextEntry: the home unit and the entry's offset in it.
Entry(cu, idx) == [cu |-> cu, idx |-> idx]
DieOf(e) == units[e.cu][e.idx]

\* ContextEntry::tag
Tag(e) == DieOf(e).tag

(***************************************************************************)
(* gimli::EntriesCursor as main.rs drives it.  input is the offset of the  *)
(* next entry to parse, cur the offset of cached_current (0 when it is     *)
(* None, also after a null entry), delta the cursor's delta_depth.         *)
(***************************************************************************)
Cursor(input, cur, delta) == [input |-> input, cur |-> cur, delta |-> delta]

\* unit.entries_at_offset(offset) / unit.entries()
EntriesAtOffset(idx) == Cursor(idx, 0, 0)

\* EntriesCursor::next_entry: [c |-> cursor after, some |-> read anything]
NextEntry(u, c) ==
    IF c.input > Len(u)
    THEN [c |-> Cursor(c.input, 0, 0), some |-> FALSE]
    ELSE IF IsNull(u[c.input])
         THEN [c |-> Cursor(c.input + 1, 0, -1), some |-> TRUE]
         ELSE [c |-> Cursor(c.input + 1, c.input,
                            IF u[c.input].has_children THEN 1 ELSE 0),
               some |-> TRUE]

\* EntriesCursor::next_dfs: skips null entries, adding up the depth change.
\* Result: [c, item], item = Some(<<delta_depth, offset>>) or None.
RECURSIVE NextDfsLoop(_, _, _)
\* one turn of the loop, r being what next_entry returned
NextDfsTurn(u, r, delta_depth) ==
    IF ~r.some THEN [c |-> r.c, item |-> None]
    ELSE IF r.c.cur # 0 THEN [c |-> r.c, item |-> Some(<<delta_depth, r.c.cur>>)]
    ELSE NextDfsLoop(u, r.c, delta_depth + r.c.delta)

NextDfsLoop(u, c, delta_depth) == NextDfsTurn(u, NextEntry(u, c), delta_depth)

NextDfs(u, c) == NextDfsLoop(u, c, c.delta)

\* EntriesCursor::next_sibling: from the current entry, skip its subtree.
\* Result: [c, item], item = Some(offset) or None.
RECURSIVE NextSiblingLoop(_, _, _)
\* one turn of the loop, r being what next_entry returned and depth the
\* depth below the starting level after the entry left behind
NextSiblingTurn(u, r, depth) ==
    IF ~r.some THEN [c |-> r.c, item |-> None]
    ELSE IF depth = 0
         THEN [c |-> r.c, item |-> IF r.c.cur # 0 THEN Some(r.c.cur) ELSE None]
         ELSE NextSiblingLoop(u, r.c, IF r.c.cur = 0 THEN depth - 1 ELSE depth)

NextSiblingLoop(u, c, depth) ==
    NextSiblingTurn(u, NextEntry(u, c),
                    IF c.cur # 0 /\ u[c.cur].has_children THEN depth + 1 ELSE depth)

NextSibling(u, c) ==
    IF c.cur = 0 THEN [c |-> c, item |-> None]
    ELSE NextSiblingLoop(u, c, 0)

(***************************************************************************)
(* EntryChildrenIterator.                                                  *)
(***************************************************************************)
\* the cursor iter_children / DwarfUnit::iter hand to the iterator:
\* entries_at_offset(offset) followed by one next_dfs onto the parent
ParentCursor(u, idx) == NextDfs(u, EntriesAtOffset(idx)).c

\* EntryChildrenIterator::new
NewIterator(cursor) == [cursor |-> cursor, is_first |-> TRUE]

\* the first call of next(): one depth-first step, kept when delta_depth = 1
\* .filter(|(delta_depth, _)| *delta_depth == 1).map(|(_, entry)| entry.clone())
OnlyChild(item) ==
    IF IsSome(item) /\ Unwrap(item)[1] = 1 THEN Some(Unwrap(item)[2]) ELSE None

\* what next() leaves and returns, r being what the cursor returned
Stepped(c, item) == [it |-> [cursor |-> c, is_first |-> FALSE], item |-> item]
AfterDfs(r) == Stepped(r.c, OnlyChild(r.item))
AfterSibling(r) == Stepped(r.c, r.item)

FirstChild(u, it) == AfterDfs(NextDfs(u, it.cursor))

\* next_dfs in the place of next_sibling
LaterChildDepthFirst(u, it) == AfterDfs(NextDfs(u, it.cursor))

\* every later call of next(): the cursor's sibling step
LaterChild(u, it) == AfterSibling(NextSibling(u, it.cursor))

\* EntryChildrenIterator::next
IterNext(u, it) == IF it.is_first THEN FirstChild(u, it) ELSE LaterChild(u, it)

\* The items an adaptor chain pulls out of the iterator: next() until None.
RECURSIVE Drain(_, _)
DrainFrom(u, r) ==
    IF IsSome(r.item) THEN <<Unwrap(r.item)>> \o Drain(u, r.it) ELSE << >>

Drain(u, it) == DrainFrom(u, IterNext(u, it))

\* ContextEntry::iter_children, collected
\* .map(|entry| Self { entry, ..*self })
InUnit(cu, s) == [k \in 1..Len(s) |-> Entry(cu, s[k])]

IterChildren(e) ==
    InUnit(e.cu, Drain(units[e.cu], NewIterator(ParentCursor(units[e.cu], e.idx))))

(***************************************************************************)
(* ContextEntry queries.  A query that can fail to return (unbounded       *)
(* recursion, endless loop, unwrap of None) reports it in a status field.  *)
(***************************************************************************)
\* number of DIE records of the image: no walk along distinct DIEs is longer
TotalDies == Len(units[1]) + (IF Len(units) > 1 THEN Len(units[2]) ELSE 0)

\* offset of a unit in .debug_info (units are laid out back to back)
UnitBase(k) == IF k = 1 THEN 0 ELSE Len(units[1])

\* DebugInfoOffset::to_unit_offset(&unit.header)
ToUnitOffset(off, k) ==
    IF off > UnitBase(k) /\ off <= UnitBase(k) + Len(units[k])
    THEN Some(off - UnitBase(k)) ELSE None

\* units.iter().find_map(..): the first unit that accepts the offset
FindUnit(off) ==
    CHOOSE k \in 1..Len(units) :
        /\ IsSome(ToUnitOffset(off, k))
        /\ \A j \in 1..(k - 1) : ~IsSome(ToUnitOffset(off, j))

\* the debug_assert of ContextEntry::class
ClassPre(e) == Tag(e) # "class_type"

\* the DebugInfoRef arm of class(): the entry at a .debug_info offset
EntryIn(k, off) == Entry(k, Unwrap(ToUnitOffset(off, k)))
EntryAt(off) == EntryIn(FindUnit(off), off)

\* the match on the attribute value a of an entry of unit cu
Referenced(cu, a) ==
    IF ~IsSome(a) THEN None
    ELSE IF Unwrap(a).form = "UnitRef"
         THEN Some(Entry(cu, Unwrap(a).off))
         ELSE Some(EntryAt(Unwrap(a).off))

\* ContextEntry::class: follow DW_AT_type
Class(e) == Referenced(e.cu, DieOf(e).type)

\* ContextEntry::name_from_tag: the DW_AT_name attribute alone
NameFromTag(e) == DieOf(e).name

\* format!("{pointee_name}") in the place of format!("{pointee_name}*")
StarDropped(pointee_name) == pointee_name

\* format!("{pointee_name}*")
Star(pointee_name) == Append(pointee_name, "*")

\* .map(|pointee_name| format!("{pointee_name}*")) on what name() returned
StarOf(r) == [r EXCEPT !.v = [k \in 1..Len(@) |-> Star(@[k])]]

\* the pointee of a pointer_type, None for any other tag
Pointee(e) == IF Tag(e) = "pointer_type" THEN Class(e) ELSE None

\* references to entries, as Entry makes them
EntryRefs == [cu : Nat, idx : Nat]

\* ContextEntry::name, with name_as_pointer, which calls name() on the
\* pointee, inside it.  depth is the number of frames still available;
\* running out of them is the stack overflow an endless pointer chain ends
\* in.  Result: [st, v], st = "ok" or "overflow", v the Option returned.
NameRec[e \in EntryRefs, depth \in Nat] ==
    IF IsSome(NameFromTag(e)) THEN [st |-> "ok", v |-> NameFromTag(e)]
    ELSE IF ~IsSome(Pointee(e)) THEN [st |-> "ok", v |-> None]
    ELSE IF depth = 0 THEN [st |-> "overflow", v |-> None]
    ELSE StarOf(NameRec[Unwrap(Pointee(e)), depth - 1])

Name(e) == NameRec[e, TotalDies]

\* ContextEntry::expand_type_defs: successors(..).last(), the closure being
\* entry.class().unwrap() on a typedef.  left counts the steps a walk along
\* distinct typedefs can still take; more means a cycle, on which the loop
\* never ends.  Result: [st, e], st = "ok", "panic" or "loop".
ExpandRec[e \in EntryRefs, left \in Nat] ==
    IF Tag(e) # "typedef" THEN [st |-> "ok", e |-> e]
    ELSE IF ~IsSome(Class(e)) THEN [st |-> "panic", e |-> e]
    ELSE IF left = 0 THEN [st |-> "loop", e |-> e]
    ELSE ExpandRec[Unwrap(Class(e)), left - 1]

\* self.class() in the place of entry.class() in the closure: the walk
\* never leaves the first typedef's target
ExpandTypeDefsFromSelf(e) ==
    IF Tag(e) # "typedef" THEN [st |-> "ok", e |-> e]
    ELSE IF ~IsSome(Class(e)) THEN [st |-> "panic", e |-> e]
    ELSE IF Tag(Unwrap(Class(e))) = "typedef" THEN [st |-> "loop", e |-> e]
    ELSE [st |-> "ok", e |-> Unwrap(Class(e))]

ExpandTypeDefs(e) == ExpandRec[e, TotalDies]

\* the debug_assert of ContextEntry::size_bytes
SizeBytesPre(e) ==
    Tag(e) \in {"class_type", "structure_type", "union_type", "enumeration_type",
                "base_type", "inheritance", "pointer_type"}

\* ContextEntry::size_bytes
SizeBytes(e) ==
    IF IsSome(DieOf(e).byte_size) THEN DieOf(e).byte_size
    ELSE IF Tag(e) = "pointer_type" THEN Some(PointerWidth) ELSE None

\* the debug_assert of ContextEntry::member_location
MemberLocationPre(e) == Tag(e) \in {"member", "inheritance"}

\* ContextEntry::member_location
MemberLocation(e) == DieOf(e).loc

\* the debug_assert of iter_base_classes and of iter_class_members
IterClassPre(e) == Tag(e) = "class_type"

\* ContextEntry::iter_base_classes: inheritance children, through class()
\* .filter_map(|entry| entry.class())
ClassOfEach(ref) == [k \in 1..Len(ref) |-> Unwrap(Class(ref[k]))]
FilterMapClass(s) == ClassOfEach(SelectSeq(s, LAMBDA c : IsSome(Class(c))))

\* iter_base_classes without its filter on the tag: every child's type
IterBaseClassesOfAnyChild(e) == FilterMapClass(IterChildren(e))

IterBaseClasses(e) ==
    FilterMapClass(SelectSeq(IterChildren(e), LAMBDA c : Tag(c) = "inheritance"))

\* ContextEntry::iter_class_members: member children with a location
IterClassMembers(e) ==
    SelectSeq(IterChildren(e),
              LAMBDA c : Tag(c) = "member" /\ IsSome(MemberLocation(c)))

(***************************************************************************)
(* Input images.  Unit 1 holds a zoo of types (a base type, a chain of     *)
(* typedefs, a chain of pointers, an array with a subrange child, an       *)
(* anonymous struct) and two class slots; unit 2 holds a third class slot, *)
(* whose references into unit 1 are .debug_info-relative.                  *)
(***************************************************************************)
NameA == <<"A">>
NameB == <<"B">>

IntIdx == Len(<<"compile_unit">>) + 1
TdIdx(i) == 2 + i
PtrIdx(i) == 2 + MaxTypedefs + i
ArrIdx == 3 + MaxTypedefs + MaxPointers
AnonIdx == ArrIdx + 3
Cls1Idx == AnonIdx + 1

\* what a DW_AT_type may point at, by kind: <<kind, number>>
NoType == <<"none", 0>>
ToInt == <<"int", 0>>
ToArr == <<"arr", 0>>
ToAnon == <<"anon", 0>>
ToTd(i) == <<"td", i>>
ToPtr(i) == <<"ptr", i>>
ToCls(k) == <<"cls", k>>

\* children of a class slot: an optional inheritance child, then an optional
\* member child ([loc, type]); p is the description of the image
HasInh(p, k) == k < 3 /\ p.inh[k]
ClassLen(p, k) ==
    1 + (IF HasInh(p, k) THEN 1 ELSE 0) + (IF IsSome(p.mem[k]) THEN 1 ELSE 0)
      + (IF HasInh(p, k) \/ IsSome(p.mem[k]) THEN 1 ELSE 0)
Cls2Idx(p) == Cls1Idx + ClassLen(p, 1)
Unit1Len(p) == Cls2Idx(p) + ClassLen(p, 2)
Cls3Idx == Len(<<"compile_unit">>) + 1

\* <<unit, offset>> of a target
Target(p, t) ==
    CASE t[1] = "int" -> <<1, IntIdx>>
      [] t[1] = "td" -> <<1, TdIdx(t[2])>>
      [] t[1] = "ptr" -> <<1, PtrIdx(t[2])>>
      [] t[1] = "arr" -> <<1, ArrIdx>>
      [] t[1] = "anon" -> <<1, AnonIdx>>
      [] t[1] = "cls" -> IF t[2] = 1 THEN <<1, Cls1Idx>>
                         ELSE IF t[2] = 2 THEN <<1, Cls2Idx(p)>>
                         ELSE <<2, Cls3Idx>>

\* the DW_AT_type attribute of a DIE of unit `from`: a reference inside the
\* unit is a UnitRef, one into another unit a DebugInfoRef
TypeAttr(p, from, t) ==
    IF t[1] = "none" THEN None
    ELSE LET tg == Target(p, t) IN
         IF tg[1] = from
         THEN Some([form |-> "UnitRef", off |-> tg[2]])
         ELSE Some([form |-> "DebugInfoRef",
                    off |-> (IF tg[1] = 1 THEN 0 ELSE Unit1Len(p)) + tg[2]])

TdName(i) == IF i = 1 THEN NameB ELSE <<"T">>

Zoo(p) ==
    <<Die("base_type", FALSE, Some(<<"int">>), Some(4), None, None)>>
    \o [i \in 1..MaxTypedefs |->
          Die("typedef", FALSE, Some(TdName(i)), None, None,
              TypeAttr(p, 1, IF i < MaxTypedefs THEN ToTd(i + 1) ELSE p.tdEnd))]
    \o [i \in 1..MaxPointers |->
          Die("pointer_type", FALSE, None, IF i = 1 THEN p.ptrSize ELSE None, None,
              TypeAttr(p, 1, IF i < MaxPointers THEN ToPtr(i + 1) ELSE p.ptrEnd))]
    \o <<Die("array_type", TRUE, None, p.arrSize, None, TypeAttr(p, 1, ToInt)),
         Die("subrange_type", FALSE, None, None, None, None),
         NullEntry,
         Die("structure_type", FALSE, None, Some(4), None, None)>>

ClassBlock(p, k, from) ==
    <<Die("class_type", HasInh(p, k) \/ IsSome(p.mem[k]), p.names[k],
          IF p.sized[k] THEN Some(16) ELSE None, None, None)>>
    \o (IF HasInh(p, k)
        THEN <<Die("inheritance", FALSE, None, None, Some(0),
                   TypeAttr(p, from, ToCls(k + 1)))>>
        ELSE << >>)
    \o (IF IsSome(p.mem[k])
        THEN <<Die("member", FALSE, Some(<<"x">>), None, Unwrap(p.mem[k]).loc,
                   TypeAttr(p, from, Unwrap(p.mem[k]).type))>>
        ELSE << >>)
    \o (IF HasInh(p, k) \/ IsSome(p.mem[k]) THEN <<NullEntry>> ELSE << >>)

Root == Die("compile_unit", TRUE, None, None, None, None)

Image(p) ==
    << <<Root>> \o Zoo(p) \o ClassBlock(p, 1, 1) \o ClassBlock(p, 2, 1) \o <<NullEntry>>,
       <<Root>> \o ClassBlock(p, 3, 2) \o <<NullEntry>> >>

Member(loc, type) == Some([loc |-> loc, type |-> type])
OptNames == {None, Some(NameA), Some(NameB)}

\* images for the filters and the deduplication: the class slots vary
FilterImages ==
    [names : OptNames \X OptNames \X OptNames,
     sized : {<<TRUE, TRUE, TRUE>>},
     inh : BOOLEAN \X BOOLEAN,
     mem : {None, Member(Some(4), ToCls(3)), Member(None, ToCls(3)),
            Member(Some(4), ToTd(1))}
           \X {None, Member(Some(8), ToTd(1))}
           \X {None, Member(Some(0), ToTd(1))},
     tdEnd : {ToInt}, ptrEnd : {ToInt}, ptrSize : {None}, arrSize : {None}]

\* images for the field lines: the zoo and the type of slot 1's member vary
FieldTypes ==
    {NoType, ToInt, ToArr, ToAnon} \cup {ToTd(i) : i \in 1..MaxTypedefs}
                                   \cup {ToPtr(i) : i \in 1..MaxPointers}
FieldImages ==
    [names : {<<Some(NameA), Some(NameB), Some(NameA)>>},
     sized : {<<TRUE, TRUE, TRUE>>, <<TRUE, FALSE, TRUE>>},
     inh : {<<TRUE, FALSE>>},
     mem : {Member(Some(8), t) : t \in FieldTypes} \X {Member(None, ToInt)} \X {None},
     tdEnd : {NoType, ToInt, ToArr, ToPtr(1), ToTd(1), ToCls(1)},
     ptrEnd : {NoType, ToInt, ToAnon, ToPtr(1), ToTd(1), ToCls(1)},
     ptrSize : {None, Some(4)}, arrSize : {None, Some(12)}]

NoFilter == [class_name |-> None, base_class_name |-> None, contained_class_name |-> None]
Filters ==
    [class_name : {None, Some(NameA)}, base_class_name : {None, Some(NameB)},
     contained_class_name : {None, Some(NameB)}]

(***************************************************************************)
(* dump_file: the filters, unique_by and the printing closure.             *)
(***************************************************************************)
UnknownClass == <<"unknown_class">>
UnknownName == <<"unknown_name">>
BaseClassField == <<"_base_class">>

\* .any(|x| x.name().as_ref() == Some(required)) over s, from position k on:
\* "true", "false", or "overflow" when a name() before the match never returns
RECURSIVE AnyNamed(_, _, _)
AnyNamedFrom(s, k, required, r) ==
    IF r.st # "ok" THEN "overflow"
    ELSE IF r.v = Some(required) THEN "true"
    ELSE AnyNamed(s, k + 1, required)

AnyNamed(s, k, required) ==
    IF k > Len(s) THEN "false" ELSE AnyNamedFrom(s, k, required, Name(s[k]))

\* the class_name filter
NameFilter(f, e) ==
    IF IsSome(f.class_name)
    THEN IF Name(e).v = f.class_name THEN "true" ELSE "false"
    ELSE "true"

\* the base_class_name filter
BaseFilter(f, e) ==
    IF IsSome(f.base_class_name)
    THEN AnyNamed(IterBaseClasses(e), 1, Unwrap(f.base_class_name))
    ELSE "true"

\* iter_class_members().filter_map(|member| member.class())
MemberClasses(e) == FilterMapClass(IterClassMembers(e))

\* the contained_class_name filter
ContainsFilter(f, e) ==
    IF IsSome(f.contained_class_name)
    THEN AnyNamed(MemberClasses(e), 1, Unwrap(f.contained_class_name))
    ELSE "true"

\* the chain of .filter(..) calls an entry goes through, in order:
\* "pass", "fail", or "overflow"
\* a filter's verdict b, and behind it the rest of the chain
Then(b, rest) ==
    IF b = "overflow" THEN "overflow" ELSE IF b = "false" THEN "fail" ELSE rest

\* the chain with its last .filter(..) skipped when a base class is asked for
FilterChainBaseOrContains(f, e) ==
    IF Tag(e) # "class_type" THEN "fail"
    ELSE IF ~IsSome(SizeBytes(e)) THEN "fail"
    ELSE Then(NameFilter(f, e),
              Then(BaseFilter(f, e),
                   IF IsSome(f.base_class_name) THEN "pass"
                   ELSE Then(ContainsFilter(f, e), "pass")))

FilterChain(f, e) ==
    IF Tag(e) # "class_type" THEN "fail"
    ELSE IF ~IsSome(SizeBytes(e)) THEN "fail"
    ELSE Then(NameFilter(f, e),
              Then(BaseFilter(f, e), Then(ContainsFilter(f, e), "pass")))

\* a key of the entry's place in the place of its name
UniqueKeyByOffset(e) == Some(<<ToString(e.cu), ToString(e.idx)>>)

\* the key of .unique_by(|entry| entry.name())
UniqueKey(e) == Name(e).v

Line(kind, die, ty, tname, fname, size, start) ==
    [kind |-> kind, die |-> die, ty |-> ty, tname |-> tname, fname |-> fname,
     size |-> size, start |-> start, end |-> start + size]

\* the child filters of the printing loop
IsField(c) ==
    Tag(c) \in {"member", "inheritance"} /\ IsSome(MemberLocation(c))

\* size_bytes().unwrap_or(0)
SizeOrZero(ty) == IF IsSome(SizeBytes(ty)) THEN Unwrap(SizeBytes(ty)) ELSE 0

\* the name printed for the field itself
FieldName(c) ==
    IF Tag(c) = "inheritance" THEN BaseClassField
    ELSE IF IsSome(Name(c).v) THEN Unwrap(Name(c).v) ELSE UnknownName

NoField(c, st, why, broken) ==
    [st |-> st, why |-> why, broken |-> broken,
     line |-> Line("none", c, c, << >>, << >>, 0, 0)]

\* the debug_asserts a call of size_bytes on ty breaks
BrokenBySize(ty) == IF SizeBytesPre(ty) THEN {} ELSE {"size_bytes"}

\* from class.name() on: ty is the expanded type, n what name() returned
FieldOfType(c, ty, n, dbg) ==
    IF n.st # "ok" THEN NoField(c, "panic", "stack_overflow", {})
    ELSE IF BrokenBySize(ty) # {} /\ dbg
    THEN NoField(c, "panic", "assert_size_bytes", BrokenBySize(ty))
    ELSE [st |-> "ok", why |-> "", broken |-> BrokenBySize(ty),
          line |-> Line("field", c, ty,
                        IF IsSome(n.v) THEN Unwrap(n.v) ELSE UnknownClass,
                        FieldName(c), SizeOrZero(ty), Unwrap(MemberLocation(c)))]

\* from expand_type_defs on: x is what it came to
FieldExpanded(c, x, dbg) ==
    IF x.st = "panic" THEN NoField(c, "panic", "expand_unwrap", {})
    ELSE IF x.st = "loop" THEN NoField(c, "loop", "expand_loop", {})
    ELSE FieldOfType(c, x.e, Name(x.e), dbg)

\* the body of the closure that prints one field, in a build with (dbg) or
\* without debug assertions: [st, why, line, broken]
FieldOutcome(c, dbg) ==
    IF ~IsSome(Class(c)) THEN NoField(c, "panic", "class_unwrap", {})
    ELSE FieldExpanded(c, ExpandTypeDefs(Unwrap(Class(c))), dbg)

Headers == SelectSeq(out, LAMBDA l : l.kind = "header")

\* unit.entries(), one next_dfs onto the root, EntryChildrenIterator::new
UnitIter(k) == NewIterator(ParentCursor(units[k], 1))

\* the runs: every filter setting on the filter images in a debug build, and
\* no filter on the field images in a debug and in a release build
FilterInputs ==
    {[image |-> i, filter |-> f, debug |-> TRUE] : i \in FilterImages, f \in Filters}
FieldInputs ==
    {[image |-> i, filter |-> NoFilter, debug |-> d] : i \in FieldImages, d \in BOOLEAN}
Inputs == FilterInputs \cup FieldInputs

\* dump_file is entered: nothing is pulled, nothing is printed
Start(x) ==
    /\ units = Image(x.image)
    /\ filter = x.filter
    /\ debug = x.debug
    /\ pc = "pull"
    /\ top = [cu |-> 1, it |-> UnitIter(1)]
    /\ seen = {}
    /\ cls = Entry(1, 1)
    /\ kids = UnitIter(1)
    /\ out = << >>
    /\ yielded = << >>
    /\ violated = {}
    /\ panic = ""

Init == \E x \in Inputs : Start(x)

\* the runs on the field images alone
InitFields == \E x \in FieldInputs : Start(x)

Pulled == IterNext(units[top.cu], top.it)
PulledEntry == Entry(top.cu, Unwrap(Pulled.item))

\* flat_map: the unit's entries are used up, the next unit is opened
NextUnit ==
    /\ pc = "pull"
    /\ ~IsSome(Pulled.item)
    /\ top.cu < Len(units)
    /\ top' = [cu |-> top.cu + 1, it |-> UnitIter(top.cu + 1)]
    /\ UNCHANGED <<units, filter, debug, pc, seen, cls, kids, out, yielded, violated, panic>>

\* the last unit is used up: for_each returns and dump_file returns Ok(())
Finish ==
    /\ pc = "pull"
    /\ ~IsSome(Pulled.item)
    /\ top.cu = Len(units)
    /\ pc' = "done"
    /\ top' = [top EXCEPT !.it = Pulled.it]
    /\ UNCHANGED <<units, filter, debug, seen, cls, kids, out, yielded, violated, panic>>

\* a top-level entry a filter rejects, or whose name unique_by has seen; a
\* name() that never returns inside a filter ends the run
SkipEntry ==
    /\ pc = "pull"
    /\ IsSome(Pulled.item)
    /\ \E e \in {PulledEntry} : \E fc \in {FilterChain(filter, e)} :
          /\ fc = "pass" => UniqueKey(e) \in seen
          /\ pc' = IF fc = "overflow" THEN "aborted" ELSE pc
          /\ panic' = IF fc = "overflow" THEN "stack_overflow" ELSE panic
    /\ top' = [top EXCEPT !.it = Pulled.it]
    /\ UNCHANGED <<units, filter, debug, seen, cls, kids, out, yielded, violated>>

\* a top-level entry that passes the filters with a name not seen yet
TakeEntry ==
    /\ pc = "pull"
    /\ IsSome(Pulled.item)
    /\ \E e \in {PulledEntry} :
          /\ FilterChain(filter, e) = "pass"
          /\ UniqueKey(e) \notin seen
          /\ seen' = seen \cup {UniqueKey(e)}
          /\ cls' = e
    /\ top' = [top EXCEPT !.it = Pulled.it]
    /\ yielded' = << >>
    /\ pc' = "header"
    /\ UNCHANGED <<units, filter, debug, kids, out, violated, panic>>

\* if i > 0 { println!("") }
BlankLine ==
    IF Len(Headers) > 0 THEN <<Line("blank", cls, cls, << >>, << >>, 0, 0)>> ELSE << >>

\* the head of the for_each closure: the blank line, name().unwrap(),
\* size_bytes().unwrap(), the struct line
PrintHeader ==
    /\ pc = "header"
    /\ IF IsSome(Name(cls).v)
       THEN /\ out' = out \o BlankLine
                      \o <<Line("header", cls, cls, Unwrap(Name(cls).v), << >>,
                                Unwrap(SizeBytes(cls)), 0)>>
            /\ kids' = NewIterator(ParentCursor(units[cls.cu], cls.idx))
            /\ pc' = "fields"
            /\ panic' = panic
       ELSE /\ out' = out \o BlankLine
            /\ pc' = "aborted"
            /\ panic' = "name_unwrap"
            /\ kids' = kids
    /\ UNCHANGED <<units, filter, debug, top, seen, cls, yielded, violated>>

Child == IterNext(units[cls.cu], kids)
ChildEntry == Entry(cls.cu, Unwrap(Child.item))

\* a child that is no member or inheritance, or has no data_member_location
SkipChild ==
    /\ pc = "fields"
    /\ IsSome(Child.item)
    /\ ~IsField(ChildEntry)
    /\ kids' = Child.it
    /\ yielded' = Append(yielded, Unwrap(Child.item))
    /\ UNCHANGED <<units, filter, debug, pc, top, seen, cls, out, violated, panic>>

\* a field: its line is printed, or the run ends in it
PrintField ==
    /\ pc = "fields"
    /\ IsSome(Child.item)
    /\ IsField(ChildEntry)
    /\ kids' = Child.it
    /\ yielded' = Append(yielded, Unwrap(Child.item))
    /\ \E c \in {ChildEntry} : \E r \in {FieldOutcome(c, debug)} :
          /\ violated' = violated \cup r.broken
          /\ out' = IF r.st = "ok" THEN Append(out, r.line) ELSE out
          /\ pc' = CASE r.st = "ok" -> pc
                      [] r.st = "panic" -> "aborted"
                      [] r.st = "loop" -> "hang"
          /\ panic' = IF r.st = "panic" THEN r.why ELSE panic
    /\ UNCHANGED <<units, filter, debug, top, seen, cls>>

\* the children are used up: the closing line, and the next class is pulled
EndClass ==
    /\ pc = "fields"
    /\ ~IsSome(Child.item)
    /\ kids' = Child.it
    /\ out' = Append(out, Line("close", cls, cls, << >>, << >>, 0, 0))
    /\ pc' = "pull"
    /\ UNCHANGED <<units, filter, debug, top, seen, cls, yielded, violated, panic>>

(***************************************************************************)
(* EntryChildrenIterator on its own: every well-formed serialised tree up  *)
(* to MaxTreeLen entries, every parent in it, one next() per step.         *)
(***************************************************************************)
Kinds == {"leaf", "node", "null"}

\* depth of position i: entries with children before it, less the nulls
DepthAt(s, i) ==
    Cardinality({j \in 1..(i - 1) : s[j] = "node"})
    - Cardinality({j \in 1..(i - 1) : s[j] = "null"})

\* a root entry, everything else inside it, and every child list closed
WellFormed(s) ==
    /\ s[1] # "null"
    /\ \A i \in 2..Len(s) : DepthAt(s, i) >= 1
    /\ DepthAt(s, Len(s) + 1) = 0

Shapes ==
    UNION {{s \in [1..n -> Kinds] : WellFormed(s)} : n \in 1..MaxTreeLen}

TreeOf(s) ==
    [i \in 1..Len(s) |->
        IF s[i] = "null" THEN NullEntry
        ELSE Die("structure_type", s[i] = "node", None, None, None, None)]

InitIter ==
    \E s \in Shapes : \E parent \in {i \in 1..Len(s) : s[i] # "null"} :
        /\ units = <<TreeOf(s)>>
        /\ filter = NoFilter
        /\ debug = TRUE
        /\ pc = "iter"
        /\ top = [cu |-> 1, it |-> NewIterator(ParentCursor(TreeOf(s), 1))]
        /\ seen = {}
        /\ cls = Entry(1, parent)
        /\ kids = NewIterator(ParentCursor(TreeOf(s), parent))
        /\ out = << >>
        /\ yielded = << >>
        /\ violated = {}
        /\ panic = ""

\* next() returns Some(child)
IterYield ==
    /\ pc = "iter"
    /\ IsSome(Child.item)
    /\ kids' = Child.it
    /\ yielded' = Append(yielded, Unwrap(Child.item))
    /\ UNCHANGED <<units, filter, debug, pc, top, seen, cls, out, violated, panic>>

\* next() returns None: the consumer drops the iterator
IterEnd ==
    /\ pc = "iter"
    /\ ~IsSome(Child.item)
    /\ kids' = Child.it
    /\ pc' = "iter_end"
    /\ UNCHANGED <<units, filter, debug, top, seen, cls, out, yielded, violated, panic>>

NextIter == IterYield \/ IterEnd

SpecIter == InitIter /\ [][NextIter]_vars

Next ==
    \/ NextUnit
    \/ Finish
    \/ SkipEntry
    \/ TakeEntry
    \/ PrintHeader
    \/ SkipChild
    \/ PrintField
    \/ EndClass

Spec == Init /\ [][Next]_vars

\* the runs on the field images; the program is sequential: whatever step
\* it can take, it takes
FairSpec == InitFields /\ [][Next]_vars /\ WF_vars(Next)

(***************************************************************************)
(* What the claims are stated in: the tree read off by depth, not through  *)
(* the iterator, and the lines printed so far.                             *)
(***************************************************************************)
\* depth of position i of unit u, as DepthAt on shapes
DieDepth(u, i) ==
    Cardinality({j \in 1..(i - 1) : u[j].has_children})
    - Cardinality({j \in 1..(i - 1) : IsNull(u[j])})

\* the offsets of the direct children of the entry at p, by depth alone
DirectChildren(u, p) ==
    {i \in (p + 1)..Len(u) :
        /\ ~IsNull(u[i])
        /\ DieDepth(u, i) = DieDepth(u, p) + 1
        /\ \A j \in (p + 1)..i : DieDepth(u, j) >= DieDepth(u, p) + 1}

ChildrenOf(e) == {Entry(e.cu, i) : i \in DirectChildren(units[e.cu], e.idx)}

\* the top-level DIEs of all units; iteration order is unit, then offset
TopLevel == UNION {ChildrenOf(Entry(k, 1)) : k \in 1..Len(units)}
Before(a, b) == a.cu < b.cu \/ (a.cu = b.cu /\ a.idx < b.idx)

\* the candidates: top-level class DIEs with a byte_size
Candidates ==
    {e \in TopLevel : Tag(e) = "class_type" /\ IsSome(DieOf(e).byte_size)}

\* the three filters, each on its own, read off the tree
HasName(e, n) == Name(e).v = Some(n)
PassesName(e, n) == HasName(e, n)
PassesBase(e, n) ==
    \E c \in ChildrenOf(e) :
        Tag(c) = "inheritance" /\ IsSome(Class(c)) /\ HasName(Unwrap(Class(c)), n)
PassesContains(e, n) ==
    \E c \in ChildrenOf(e) :
        /\ Tag(c) = "member" /\ IsSome(DieOf(c).loc)
        /\ IsSome(Class(c)) /\ HasName(Unwrap(Class(c)), n)

\* the candidates that pass every filter that is given
Passes(e) ==
    /\ IsSome(filter.class_name) => PassesName(e, Unwrap(filter.class_name))
    /\ IsSome(filter.base_class_name) => PassesBase(e, Unwrap(filter.base_class_name))
    /\ IsSome(filter.contained_class_name) =>
           PassesContains(e, Unwrap(filter.contained_class_name))
Passing == {e \in Candidates : Passes(e)}

\* the classes whose struct line has been printed
Printed == {Headers[k].die : k \in 1..Len(Headers)}
FieldLines == SelectSeq(out, LAMBDA l : l.kind = "field")

(***************************************************************************)
(* C1: no two printed classes have the same name; a printed class is a     *)
(* candidate that passes the filter and the first of its name among those  *)
(* (unit order, then top-level order); and when the run returns, every     *)
(* name borne by a passing candidate has been printed.                     *)
(***************************************************************************)
C1_FirstOfEachName ==
    LET h == Headers IN
    /\ \A i, j \in 1..Len(h) : i # j => h[i].tname # h[j].tname
    /\ \A i \in 1..Len(h) :
          /\ h[i].die \in Passing
          /\ Name(h[i].die).v = Some(h[i].tname)
          /\ \A e \in Passing : Name(e).v = Some(h[i].tname) => ~Before(e, h[i].die)
    /\ pc = "done" =>
          \A e \in Passing : IsSome(Name(e).v) =>
              \E i \in 1..Len(h) : h[i].tname = Unwrap(Name(e).v)

\* a filter is given; of three candidates of one name the first fails it,
\* the second is printed and the third, which passes too, is skipped
C1_Witness ==
    /\ pc = "done"
    /\ filter # NoFilter
    /\ \E a \in Candidates \ Passing, b \in Printed, c \in Passing \ Printed :
          /\ Before(a, b) /\ Before(b, c)
          /\ Name(a).v = Name(b).v /\ Name(b).v = Name(c).v

(***************************************************************************)
(* C2: a sized class DIE without a name that passes the filter is kept,    *)
(* each one separately, and handling it does not abort the run: the run    *)
(* never ends in name().unwrap(), and when it returns every such class     *)
(* has been printed.                                                       *)
(***************************************************************************)
C2_UnnamedKept ==
    /\ panic # "name_unwrap"
    /\ pc = "done" => \A e \in Passing : ~IsSome(Name(e).v) => e \in Printed

(***************************************************************************)
(* C3: with --contains C, every printed class has a member child with a    *)
(* data_member_location whose type, after class() and expand_type_defs,    *)
(* has name exactly C.                                                     *)
(***************************************************************************)
ExpandsToName(c, n) ==
    /\ IsSome(Class(c))
    /\ ExpandTypeDefs(Unwrap(Class(c))).st = "ok"
    /\ HasName(ExpandTypeDefs(Unwrap(Class(c))).e, n)

C3_ContainsExpandedType ==
    IsSome(filter.contained_class_name) =>
        \A d \in Printed : \E c \in ChildrenOf(d) :
            /\ Tag(c) = "member" /\ IsSome(DieOf(c).loc)
            /\ ExpandsToName(c, Unwrap(filter.contained_class_name))

(***************************************************************************)
(* C7: with --base-class B, every printed class has a direct inheritance   *)
(* child whose type reference resolves to a DIE named exactly B; a class   *)
(* that reaches B only through a base of a base is not printed.            *)
(***************************************************************************)
C7_DirectBaseOnly ==
    IsSome(filter.base_class_name) =>
        \A d \in Printed : PassesBase(d, Unwrap(filter.base_class_name))

\* the run returned having printed a class with base B and not a class of
\* another name whose base is not B but has base B itself
C7_Witness ==
    /\ pc = "done"
    /\ IsSome(filter.base_class_name)
    /\ Printed # {}
    /\ \E e \in Candidates \ Printed :
          /\ \A d \in Printed : Name(d).v # Name(e).v
          /\ ~PassesBase(e, Unwrap(filter.base_class_name))
          /\ \E c \in ChildrenOf(e) :
                /\ Tag(c) = "inheritance" /\ IsSome(Class(c))
                /\ PassesBase(Unwrap(Class(c)), Unwrap(filter.base_class_name))

(***************************************************************************)
(* C8: EntryChildrenIterator yields exactly the direct children of the     *)
(* parent, each once, in document order, and then ends: what it has        *)
(* yielded is always a prefix of the parent's direct children (read off    *)
(* the tree by depth), and all of them when it has ended.                  *)
(***************************************************************************)
\* a set of offsets in document order
RECURSIVE InOrder(_)
InOrder(S) ==
    IF S = {} THEN << >>
    ELSE LET m == CHOOSE m \in S : \A x \in S : m <= x IN <<m>> \o InOrder(S \ {m})

IsPrefix(a, b) == Len(a) <= Len(b) /\ \A k \in 1..Len(a) : a[k] = b[k]

C8_ExactlyDirectChildren ==
    LET want == InOrder(DirectChildren(units[cls.cu], cls.idx)) IN
        /\ IsPrefix(yielded, want)
        /\ pc = "iter_end" => yielded = want

\* ended after yielding two children, the first with children of its own,
\* with entries following the parent's subtree
C8_Witness ==
    /\ pc = "iter_end"
    /\ Len(yielded) >= 2
    /\ units[cls.cu][yielded[1]].has_children
    /\ yielded[2] > yielded[1] + 2
    /\ cls.idx > 1
    /\ \E i \in (yielded[Len(yielded)] + 2)..Len(units[cls.cu]) : ~IsNull(units[cls.cu][i])

\* a parent without children, followed by a sibling: nothing is yielded
C8_WitnessEmpty ==
    /\ pc = "iter_end"
    /\ yielded = << >>
    /\ cls.idx < Len(units[cls.cu])
    /\ ~IsNull(units[cls.cu][cls.idx + 1])

(***************************************************************************)
(* C9: no call dump_file makes breaks a tag assertion: size_bytes is never *)
(* called on an entry outside its allowed tags, the run never ends in that *)
(* assertion, and a field whose expanded type has another tag is printed   *)
(* with size 0.                                                            *)
(***************************************************************************)
C9_AssertionsHold ==
    /\ violated = {}
    /\ panic # "assert_size_bytes"
    /\ \A k \in 1..Len(FieldLines) :
          ~SizeBytesPre(FieldLines[k].ty) => FieldLines[k].size = 0

(***************************************************************************)
(* C6: a field whose type reference reaches a chain of typedefs is printed *)
(* with the first non-typedef entry of the chain and that entry's name,    *)
(* also when a typedef of the chain has no type attribute: the run never   *)
(* ends in the unwrap of expand_type_defs.                                 *)
(***************************************************************************)
\* the type reference of the field of a line
DeclaredType(l) == Unwrap(Class(l.die))

C6_TypedefChainPrinted ==
    /\ panic # "expand_unwrap"
    /\ \A k \in 1..Len(FieldLines) :
          LET l == FieldLines[k] IN
          Tag(DeclaredType(l)) = "typedef" =>
              /\ Tag(l.ty) # "typedef"
              /\ l.tname \in {UnknownClass} \cup
                     (IF IsSome(Name(l.ty).v) THEN {Unwrap(Name(l.ty).v)} ELSE {})

(***************************************************************************)
(* C5: a printed field whose expanded type is a pointer_type without a     *)
(* name is printed with the pointee's name followed by "*" when the        *)
(* pointer has a type attribute and the pointee has a name, and with       *)
(* unknown_class otherwise; its size is the pointer's byte_size attribute  *)
(* when it has one, and the pointer width otherwise.                       *)
(***************************************************************************)
PointerLines ==
    SelectSeq(FieldLines,
              LAMBDA l : Tag(l.ty) = "pointer_type" /\ ~IsSome(DieOf(l.ty).name))

PointeeNamed(e) == IsSome(Class(e)) /\ IsSome(Name(Unwrap(Class(e))).v)

C5_PointerNameAndSize ==
    \A k \in 1..Len(PointerLines) :
        LET l == PointerLines[k] IN
        /\ l.tname = IF PointeeNamed(l.ty)
                     THEN Append(Unwrap(Name(Unwrap(Class(l.ty))).v), "*")
                     ELSE UnknownClass
        /\ l.size = IF IsSome(DieOf(l.ty).byte_size)
                    THEN Unwrap(DieOf(l.ty).byte_size)
                    ELSE PointerWidth

\* a pointer to int without a byte_size attribute has been printed
C5_Witness ==
    \E k \in 1..Len(PointerLines) :
        /\ PointerLines[k].tname = <<"int", "*">>
        /\ PointerLines[k].size = PointerWidth
        /\ ~IsSome(DieOf(PointerLines[k].ty).byte_size)

\* C5 as it is stated: every pointer-typed field ends with "*" and has the
\* pointer width as its size, whatever the pointee
C5_AlwaysStarAndWidth ==
    \A k \in 1..Len(PointerLines) :
        /\ PointerLines[k].tname[Len(PointerLines[k].tname)] = "*"
        /\ PointerLines[k].size = PointerWidth

(***************************************************************************)
(* C10: on an image whose type references have no cycle made of typedef    *)
(* and pointer DIEs only, the run ends (it returns or it aborts); it never *)
(* hangs in expand_type_defs nor overflows the stack in name(); and the    *)
(* name printed for a pointer field carries one "*" for every pointer_type *)
(* without a name on the way from the field's type to the first DIE that   *)
(* is not one, name() recursing through all of them.                       *)
(***************************************************************************)
IsLink(e) == Tag(e) \in {"typedef", "pointer_type"}
LinkDies ==
    {e \in UNION {{Entry(k, i) : i \in 1..Len(units[k])} : k \in 1..Len(units)} :
        ~IsNull(DieOf(e)) /\ IsLink(e)}

\* the type references from e on lead to target along typedef and pointer
\* DIEs, in n steps at most
LeadsTo[e \in EntryRefs, target \in EntryRefs, n \in Nat] ==
    IF n = 0 \/ ~IsLink(e) \/ ~IsSome(Class(e)) THEN FALSE
    ELSE IF Unwrap(Class(e)) = target THEN TRUE
    ELSE LeadsTo[Unwrap(Class(e)), target, n - 1]

NoTypedefPointerCycle == \A e \in LinkDies : ~LeadsTo[e, e, TotalDies]

\* the pointer_type DIEs without a name from e on, up to the first other DIE
PointerHops[e \in EntryRefs, n \in Nat] ==
    IF n = 0 \/ Tag(e) # "pointer_type" \/ IsSome(DieOf(e).name)
       \/ ~IsSome(Class(e))
    THEN 0
    ELSE 1 + PointerHops[Unwrap(Class(e)), n - 1]

Stars(name) == Cardinality({k \in 1..Len(name) : name[k] = "*"})

Terminated == pc \in {"done", "aborted"}

NamedThroughPointers ==
    \A k \in 1..Len(PointerLines) :
        PointerLines[k].tname # UnknownClass =>
            Stars(PointerLines[k].tname) = PointerHops[PointerLines[k].ty, TotalDies]

C10_TerminatesWithoutCycle ==
    /\ NoTypedefPointerCycle => <>Terminated
    /\ [](NoTypedefPointerCycle =>
             /\ pc # "hang"
             /\ panic # "stack_overflow"
             /\ NamedThroughPointers)

\* the run returned after printing a pointer to a pointer to class A, the
\* class the field belongs to
C10_Witness ==
    /\ pc = "done"
    /\ NoTypedefPointerCycle
    /\ \E k \in 1..Len(PointerLines) :
          /\ PointerLines[k].tname = <<"A", "*", "*">>
          /\ Tag(Unwrap(Class(Unwrap(Class(PointerLines[k].ty))))) = "class_type"

\* C10 as it is stated: the run ends, and the name of a pointer is made from
\* one look at its pointee, so it carries one "*" at most
C10_OneStepLookup ==
    /\ NoTypedefPointerCycle => <>Terminated
    /\ [](\A k \in 1..Len(PointerLines) : Stars(PointerLines[k].tname) <= 1)

(***************************************************************************)
(* C4: with all three filters given, a class is printed only if it passes  *)
(* each of the three filters applied alone, and when the run returns the   *)
(* printed classes are the first of each name among the candidates that    *)
(* pass all three alone.  Each run with one filter alone, when it returns,  *)
(* prints a class of the same name, which need not be the same class: it   *)
(* keeps the first of its own survivors.                                   *)
(* A whole run is recomputed below as a fold over the top-level entries;   *)
(* whenever the run has ended, the fold agrees with what was printed.      *)
(***************************************************************************)
\* a run so far: the names unique_by has seen, the classes printed, and
\* whether the run is still going
RunStates ==
    [seen : SUBSET Seq(Seq(STRING)), printed : SUBSET EntryRefs, live : BOOLEAN]

\* every field of a printed class gets its line
FieldsPrinted(e) ==
    \A c \in ChildrenOf(e) : IsField(c) => FieldOutcome(c, debug).st = "ok"

\* what the top-level entry e does to a run with filter f
RunStep(f, e, acc) ==
    IF ~acc.live \/ FilterChain(f, e) = "fail" THEN acc
    ELSE IF FilterChain(f, e) = "overflow" THEN [acc EXCEPT !.live = FALSE]
    ELSE IF UniqueKey(e) \in acc.seen THEN acc
    ELSE IF ~IsSome(Name(e).v)
         THEN [acc EXCEPT !.seen = @ \cup {UniqueKey(e)}, !.live = FALSE]
         ELSE [seen |-> acc.seen \cup {UniqueKey(e)},
               printed |-> acc.printed \cup {e},
               live |-> FieldsPrinted(e)]

IsTopLevel(cu, idx) ==
    ~IsNull(units[cu][idx]) /\ DieDepth(units[cu], idx) = 1

RunFrom[f \in Filters, cu \in Nat, idx \in Nat, acc \in RunStates] ==
    IF cu > Len(units) THEN acc
    ELSE IF idx > Len(units[cu]) THEN RunFrom[f, cu + 1, 1, acc]
    ELSE RunFrom[f, cu, idx + 1,
                 IF IsTopLevel(cu, idx) THEN RunStep(f, Entry(cu, idx), acc) ELSE acc]

Run(f) == RunFrom[f, 1, 1, [seen |-> {}, printed |-> {}, live |-> TRUE]]
RunPrinted(f) == Run(f).printed
RunReturns(f) == Run(f).live

\* the filter settings that keep one of the three filters of f
OnlyName(f) == [NoFilter EXCEPT !.class_name = f.class_name]
OnlyBase(f) == [NoFilter EXCEPT !.base_class_name = f.base_class_name]
OnlyContains(f) == [NoFilter EXCEPT !.contained_class_name = f.contained_class_name]

AllThree ==
    /\ IsSome(filter.class_name)
    /\ IsSome(filter.base_class_name)
    /\ IsSome(filter.contained_class_name)

\* the top-level entries the filters of f let through
PassedBy(f) == {e \in TopLevel : FilterChain(f, e) = "pass"}
PassedByEach ==
    PassedBy(OnlyName(filter)) \cap PassedBy(OnlyBase(filter))
        \cap PassedBy(OnlyContains(filter))

PrintedByEach ==
    RunPrinted(OnlyName(filter)) \cap RunPrinted(OnlyBase(filter))
        \cap RunPrinted(OnlyContains(filter))

C4_PassesEachFilterAlone ==
    /\ AllThree =>
          /\ Printed \subseteq PassedByEach
          /\ \A d \in Printed : \A e \in PassedByEach :
                 Name(e).v = Name(d).v => ~Before(e, d)
          /\ pc = "done" =>
                 \A e \in PassedByEach : \E d \in Printed : Name(d).v = Name(e).v
          /\ \A g \in {OnlyName(filter), OnlyBase(filter), OnlyContains(filter)} :
                 RunReturns(g) =>
                     \A d \in Printed : \E x \in RunPrinted(g) : Name(x).v = Name(d).v
    /\ pc \in {"done", "aborted", "hang"} =>
          /\ Printed = RunPrinted(filter)
          /\ RunReturns(filter) <=> pc = "done"

\* the run with all three filters returned having printed a class that one
\* of the runs with a single filter, which return too, does not print
C4_Witness ==
    /\ pc = "done"
    /\ AllThree
    /\ RunReturns(OnlyName(filter))
    /\ RunReturns(OnlyBase(filter))
    /\ RunReturns(OnlyContains(filter))
    /\ Printed \ PrintedByEach # {}

\* C4 as it is stated, for runs that return: the classes printed with all
\* three filters are those printed by all three runs with one filter each
C4_IntersectionOfRuns ==
    ( /\ pc = "done"
      /\ AllThree
      /\ RunReturns(OnlyName(filter))
      /\ RunReturns(OnlyBase(filter))
      /\ RunReturns(OnlyContains(filter)) )
    => Printed = PrintedByEach

====
